---- MODULE Spec2Model ----
(***************************************************************************)
(* A model of extract_trades.py: the bulk-file reader that hands every     *)
(* type's order book to a callback, the batch accumulator (find_trades,    *)
(* end_read), the trade inference (infer_trades_helper, infer_trades) and  *)
(* the writer (write_trades).                                              *)
(*                                                                         *)
(* A DataFrame is a sequence of rows (records), in row order.  A float is  *)
(* a record [nan, num, den] standing for num/den, or for NaN.              *)
(***************************************************************************)
EXTENDS Integers, Sequences, FiniteSets, TLC

(***************************************************************************)
(* Bounds of the input families.                                           *)
(***************************************************************************)
\* snapshots per region in one day's order book (times 1..NumSnaps)
NumSnaps == 2
\* the largest remaining volume of an order
MaxVolume == 1
\* the largest batch size a run is started with
MaxBatchSize == 2
\* the longest trade list handed to write_trades on its own
MaxTrades == 4

(***************************************************************************)
(* Program constants.                                                      *)
(***************************************************************************)
\* rolling(window=5, ...)
Window == 5
\* threshold_ratio = 0.04, as RatioNum / RatioDen
RatioNum == 4
RatioDen == 100
\* timestamp() * 1000
MillisPerSecond == 1000
\* the archive is interval_<date>_5: one snapshot every 5 minutes
SnapSeconds == 300
\* type_batch_size = 200
DefaultBatchSize == 200

(***************************************************************************)
(* The input families: the orders an archive may hold.  An order has a     *)
(* fixed type, region, side, range and location; its presence and volume   *)
(* vary from snapshot to snapshot, its price with the snapshot time.       *)
(***************************************************************************)
Types == {1, 2, 3, 4}
Regions == {10, 20}
SnapTimes == 1..NumSnaps

OrderCatalogue ==
    << [type_id |-> 1, region_id |-> 10, buy |-> TRUE,  order_range |-> "region",  location_id |-> 60],
       [type_id |-> 1, region_id |-> 10, buy |-> FALSE, order_range |-> "region",  location_id |-> 61],
       [type_id |-> 1, region_id |-> 20, buy |-> TRUE,  order_range |-> "station", location_id |-> 62],
       [type_id |-> 2, region_id |-> 20, buy |-> FALSE, order_range |-> "station", location_id |-> 63],
       [type_id |-> 3, region_id |-> 10, buy |-> TRUE,  order_range |-> "5",       location_id |-> 64],
       [type_id |-> 4, region_id |-> 10, buy |-> FALSE, order_range |-> "station", location_id |-> 65] >>

OrderIds == DOMAIN OrderCatalogue
OrdersOfType(t) == {o \in OrderIds : OrderCatalogue[o].type_id = t}

\* the quoted price (in cents) of order o in the snapshot taken at time t
PriceAt(o, t) == 100 * o + t

\* the snapshot time of the t-th snapshot, in seconds since the epoch
SnapshotTime(t) == SnapSeconds * t

(***************************************************************************)
(* Sequences and sets.                                                     *)
(***************************************************************************)
RECURSIVE SortedSeq(_)
SortedSeq(S) ==
    IF S = {} THEN <<>>
    ELSE LET m == CHOOSE x \in S : \A y \in S : x <= y
         IN  <<m>> \o SortedSeq(S \ {m})

Reverse(s) == [i \in 1..Len(s) |-> s[Len(s) + 1 - i]]

Range(s) == {s[i] : i \in DOMAIN s}

RECURSIVE Concat(_)
Concat(ss) == IF ss = <<>> THEN <<>> ELSE Head(ss) \o Concat(Tail(ss))

RECURSIVE SumSeq(_)
SumSeq(s) == IF s = <<>> THEN 0 ELSE Head(s) + SumSeq(Tail(s))

\* list(a_set): the elements in an order the program does not control
SetToList(S, rev) == IF rev THEN Reverse(SortedSeq(S)) ELSE SortedSeq(S)

(***************************************************************************)
(* read_bulk_file, lines 79-89: the order book of one type as a DataFrame. *)
(* content[o][t] is <<>> when order o is not in the snapshot at time t and *)
(* <<v>> when it is there with volume v.  Rows come region by region,      *)
(* snapshot by snapshot, the bids of a snapshot before its asks.           *)
(***************************************************************************)
OrderRow(type_id, region_id, o, t, v) ==
    [date        |-> SnapshotTime(t),
     type_id     |-> type_id,
     region_id   |-> region_id,
     order_id    |-> o,
     volume      |-> v,
     price       |-> PriceAt(o, t),
     buy         |-> OrderCatalogue[o].buy,
     order_range |-> OrderCatalogue[o].order_range,
     location_id |-> OrderCatalogue[o].location_id]

SnapOrders(type_id, region_id, content, t) ==
    LET live == {o \in DOMAIN content :
                    OrderCatalogue[o].region_id = region_id /\ content[o][t] # <<>>}
        bid  == SortedSeq({o \in live : OrderCatalogue[o].buy})
        ask  == SortedSeq({o \in live : ~OrderCatalogue[o].buy})
        both == bid \o ask
    IN  [i \in 1..Len(both) |-> OrderRow(type_id, region_id, both[i], t, content[both[i]][t][1])]

BookFrame(type_id, content) ==
    LET regions == SortedSeq({OrderCatalogue[o].region_id : o \in DOMAIN content})
    IN  Concat([k \in 1..Len(regions) |->
                   Concat([t \in SnapTimes |-> SnapOrders(type_id, regions[k], content, t)])])

(***************************************************************************)
(* get_market_history: the rows of the local history store for the given   *)
(* types and regions, each (type, region) series in date order.  store is  *)
(* a function from <<type, region>> to the daily volumes of the days       *)
(* compute_date - 6 .. compute_date - 1 that the store holds.              *)
(***************************************************************************)
HistoryRows(store, t, r) ==
    [i \in 1..Len(store[<<t, r>>]) |->
        [type_id |-> t, region_id |-> r, volume |-> store[<<t, r>>][i]]]

get_market_history(store, types, regions) ==
    Concat([i \in 1..Len(types) |->
               Concat([j \in 1..Len(regions) |-> HistoryRows(store, types[i], regions[j])])])

(***************************************************************************)
(* Floats: num/den with den > 0, or NaN.                                   *)
(***************************************************************************)
NaN == [nan |-> TRUE, num |-> 0, den |-> 1]
Float(n, d) == [nan |-> FALSE, num |-> n, den |-> d]

\* volume <= threshold, false when the threshold is NaN
IntLeqFloat(v, f) == ~f.nan /\ v * f.den <= f.num

\* series.rolling(window=5, center=False).mean()
RollingMean(series) ==
    [i \in 1..Len(series) |->
        IF i < Window THEN NaN
        ELSE Float(SumSeq(SubSeq(series, i - Window + 1, i)), Window)]

\* thresh_series[-1] * threshold_ratio
TimesRatio(f) == IF f.nan THEN NaN ELSE Float(f.num * RatioNum, f.den * RatioDen)

(***************************************************************************)
(* infer_trades.                                                           *)
(***************************************************************************)
\* a slip: no default for an empty series, whose rolling mean has no last value
VolumeThreshold_NoDefault(market_history, next_type) ==
    LET by_type == SelectSeq(market_history, LAMBDA h : h.type_id = next_type)
        thresh_series == RollingMean([i \in 1..Len(by_type) |-> by_type[i].volume])
    IN  IF Len(thresh_series) = 0 THEN NaN
        ELSE TimesRatio(thresh_series[Len(thresh_series)])

\* lines 122-128: the threshold of one type from one region's history
VolumeThreshold(market_history, next_type) ==
    LET by_type == SelectSeq(market_history, LAMBDA h : h.type_id = next_type)
        thresh_series == RollingMean([i \in 1..Len(by_type) |-> by_type[i].volume])
    IN  IF Len(thresh_series) = 0 THEN Float(0, 1)
        ELSE TimesRatio(thresh_series[Len(thresh_series)])

volume_threshold_map(type_set, market_history) ==
    [t \in Range(type_set) |-> VolumeThreshold(market_history, t)]

\* list(order_book.groupby(order_book.index)): <<time, rows>>, times ascending
GroupByIndex(order_book) ==
    LET dates == SortedSeq({order_book[i].date : i \in DOMAIN order_book})
    IN  [k \in 1..Len(dates) |->
            <<dates[k], SelectSeq(order_book, LAMBDA r : r.date = dates[k])>>]

\* pd.merge(current_snap, next_snap, on="order_id")
Merge(current_snap, next_snap) ==
    Concat([i \in 1..Len(current_snap) |->
               LET hits == SelectSeq(next_snap,
                                     LAMBDA r : r.order_id = current_snap[i].order_id)
               IN  [j \in 1..Len(hits) |-> [x |-> current_snap[i], y |-> hits[j]]]])

\* a slip: every buy order loses its location, station-bound or not
LocationText_AnyBuy(line) ==
    IF line.buy THEN "None" ELSE ToString(line.location_id)

\* lines 147-151 and 171-174 with the str(location) of lines 161 and 184
LocationText(line) ==
    IF line.buy /\ line.order_range # "station" THEN "None"
    ELSE ToString(line.location_id)

\* a slip: the price taken from the current snapshot (price_x) instead of price_y
ChangedTrade_CurrentPrice(next_region, next_time, m) ==
    [timestamp |-> next_time,
     region_id |-> next_region,
     type_id   |-> m.x.type_id,
     actual    |-> TRUE,
     buy       |-> m.x.buy,
     order_id  |-> m.x.order_id,
     price     |-> m.x.price,
     volume    |-> m.x.volume - m.y.volume,
     location  |-> LocationText(m.x)]

\* lines 138-161: orders present in both snapshots whose volume changed
ChangedTrade(next_region, next_time, m) ==
    [timestamp |-> next_time,
     region_id |-> next_region,
     type_id   |-> m.x.type_id,
     actual    |-> TRUE,
     buy       |-> m.x.buy,
     order_id  |-> m.x.order_id,
     price     |-> m.y.price,
     volume    |-> m.x.volume - m.y.volume,
     location  |-> LocationText(m.x)]

ChangedTrades(type_set, next_region, current, next) ==
    LET merged == Merge(current[2], next[2])
        changed_orders == SelectSeq(merged, LAMBDA m : m.x.volume # m.y.volume)
        kept == SelectSeq(changed_orders, LAMBDA m : m.x.type_id \in Range(type_set))
    IN  [i \in 1..Len(kept) |-> ChangedTrade(next_region, next[1], kept[i])]

\* a slip: the event stamped with the current snapshot's time (current[0])
RemovedTrade_CurrentTime(next_region, next_time, next_line) ==
    [timestamp |-> next_line.date,
     region_id |-> next_region,
     type_id   |-> next_line.type_id,
     actual    |-> FALSE,
     buy       |-> next_line.buy,
     order_id  |-> next_line.order_id,
     price     |-> next_line.price,
     volume    |-> next_line.volume,
     location  |-> LocationText(next_line)]

\* a slip: the region written into the type_id field (line 178)
RemovedTrade_RegionAsType(next_region, next_time, next_line) ==
    [timestamp |-> next_time,
     region_id |-> next_region,
     type_id   |-> next_region,
     actual    |-> FALSE,
     buy       |-> next_line.buy,
     order_id  |-> next_line.order_id,
     price     |-> next_line.price,
     volume    |-> next_line.volume,
     location  |-> LocationText(next_line)]

\* lines 162-184: orders of the current snapshot that the next one lacks
RemovedTrade(next_region, next_time, next_line) ==
    [timestamp |-> next_time,
     region_id |-> next_region,
     type_id   |-> next_line.type_id,
     actual    |-> FALSE,
     buy       |-> next_line.buy,
     order_id  |-> next_line.order_id,
     price     |-> next_line.price,
     volume    |-> next_line.volume,
     location  |-> LocationText(next_line)]

\* a slip: the comparison of line 170 turned round (volume >= volume_threshold)
IsTrade_Reversed(next_line, threshold_map) ==
    LET f == threshold_map[next_line.type_id]
    IN  ~f.nan /\ next_line.volume * f.den >= f.num

IsTrade(next_line, threshold_map) ==
    IntLeqFloat(next_line.volume, threshold_map[next_line.type_id])

RemovedTrades(type_set, next_region, threshold_map, current, next, rev) ==
    LET removed_orders == SetToList({current[2][i].order_id : i \in DOMAIN current[2]}
                                      \ {next[2][i].order_id : i \in DOMAIN next[2]}, rev)
        lines == [i \in 1..Len(removed_orders) |->
                     LET sel == SelectSeq(current[2],
                                          LAMBDA r : r.order_id = removed_orders[i])
                     IN  sel[1]]
        typed == SelectSeq(lines, LAMBDA l : l.type_id \in Range(type_set))
        kept  == SelectSeq(typed, LAMBDA l : IsTrade(l, threshold_map))
    IN  [i \in 1..Len(kept) |-> RemovedTrade(next_region, next[1], kept[i])]

\* a slip: the history not narrowed to the region (line 116 left out), so that a
\* type's threshold comes from the rows of every region of the batch
InferRegion_SharedHistory(type_set, next_region, order_book_full, market_history_full, rev) ==
    LET order_book == SelectSeq(order_book_full, LAMBDA r : r.region_id = next_region)
        threshold_map == volume_threshold_map(type_set, market_history_full)
        snap_list == GroupByIndex(order_book)
    IN  Concat([i \in 1..(Len(snap_list) - 1) |->
                   ChangedTrades(type_set, next_region, snap_list[i], snap_list[i + 1])
                   \o RemovedTrades(type_set, next_region, threshold_map,
                                    snap_list[i], snap_list[i + 1], rev)])

\* lines 112-184 for one region of region_set
InferRegion(type_set, next_region, order_book_full, market_history_full, rev) ==
    LET order_book == SelectSeq(order_book_full, LAMBDA r : r.region_id = next_region)
        market_history == SelectSeq(market_history_full,
                                    LAMBDA h : h.region_id = next_region)
        threshold_map == volume_threshold_map(type_set, market_history)
        snap_list == GroupByIndex(order_book)
    IN  Concat([i \in 1..(Len(snap_list) - 1) |->
                   ChangedTrades(type_set, next_region, snap_list[i], snap_list[i + 1])
                   \o RemovedTrades(type_set, next_region, threshold_map,
                                    snap_list[i], snap_list[i + 1], rev)])

infer_trades(type_set, region_set, order_book_full, market_history_full, rev) ==
    Concat([k \in 1..Len(region_set) |->
               InferRegion(type_set, region_set[k], order_book_full,
                           market_history_full, rev)])

(***************************************************************************)
(* infer_trades_helper, for a non-empty next_types (a list of              *)
(* <<type_id, DataFrame>>); with an empty list line 212 raises IndexError.  *)
(* revRegions and rev are the iteration orders of the two Python sets.      *)
(***************************************************************************)
FullTypeList(next_types) == [i \in 1..Len(next_types) |-> next_types[i][1]]

FullRegionSet(next_types) ==
    UNION {{next_types[i][2][j].region_id : j \in DOMAIN next_types[i][2]} :
              i \in DOMAIN next_types}

FullBook(next_types) == Concat([i \in 1..Len(next_types) |-> next_types[i][2]])

infer_trades_helper(store, next_types, revRegions, rev) ==
    LET full_type_list == FullTypeList(next_types)
        full_region_list == SetToList(FullRegionSet(next_types), revRegions)
        market_history == get_market_history(store, full_type_list, full_region_list)
    IN  infer_trades(full_type_list, full_region_list, FullBook(next_types),
                     market_history, rev)

(***************************************************************************)
(* write_trades: the lines written for one list of trades.  A line is the  *)
(* tuple of its comma-separated fields; "{:d}" fields stay numbers.        *)
(***************************************************************************)
\* str(True), str(False)
BoolText(b) == IF b THEN "True" ELSE "False"

\* "{:.2f}" of a price held in cents
PriceText(cents) ==
    ToString(cents \div 100) \o "." \o ToString((cents % 100) \div 10) \o ToString(cents % 10)

\* int(tt['timestamp'].timestamp() * 1000)
EpochMillis(timestamp) == timestamp * MillisPerSecond

TradeLine(tt) ==
    <<EpochMillis(tt.timestamp), BoolText(tt.actual), BoolText(tt.buy), tt.order_id,
      PriceText(tt.price), tt.volume, tt.location>>

\* a slip: the sort of line 230 left out
SortByTimestamp_Unsorted(trades) == trades

\* trades.sort(key=lambda y: y['timestamp']): a stable sort
SortByTimestamp(trades) ==
    LET stamps == SortedSeq({trades[i].timestamp : i \in DOMAIN trades})
    IN  Concat([k \in 1..Len(stamps) |->
                   SelectSeq(trades, LAMBDA x : x.timestamp = stamps[k])])

\* a slip: the filter of line 239 left out, so that every region lists the
\* trades of all the regions of the type
RegionLines_AnyRegion(trades, next_region) ==
    LET region_trades == trades
    IN  <<<<next_region>>, <<Len(region_trades)>>>>
        \o [i \in 1..Len(region_trades) |-> TradeLine(region_trades[i])]

\* lines 238-245: one region of one type
RegionLines(trades, next_region) ==
    LET region_trades == SelectSeq(trades, LAMBDA x : x.region_id = next_region)
    IN  <<<<next_region>>, <<Len(region_trades)>>>>
        \o [i \in 1..Len(region_trades) |-> TradeLine(region_trades[i])]

\* lines 229-245: one type
TypeLines(trade_list, next_type) ==
    LET trades == SortByTimestamp(SelectSeq(trade_list, LAMBDA x : x.type_id = next_type))
        region_list == SortedSeq({trades[i].region_id : i \in DOMAIN trades})
    IN  <<<<next_type>>, <<Len(region_list)>>>>
        \o Concat([k \in 1..Len(region_list) |-> RegionLines(trades, region_list[k])])

write_trades(trade_list) ==
    LET type_list == SortedSeq({trade_list[i].type_id : i \in DOMAIN trade_list})
    IN  Concat([k \in 1..Len(type_list) |-> TypeLines(trade_list, type_list[k])])

(***************************************************************************)
(* The state of a run of extract_trades.                                   *)
(***************************************************************************)
VARIABLES
    pc,               \* where the run is: "main", "start", "reading", "done", "failed",
                      \* "crashed", "value_error", "type_error"
    type_batch_size,  \* the global batch size
    type_count,       \* extract_trades.type_count
    next_types,       \* extract_trades.next_types: a list of <<type_id, DataFrame>>
    scanned,          \* the types of the archive read so far
    history_store,    \* the local market history: <<type, region>> -> daily volumes
    inferred,         \* the result of the last infer_trades_helper call
    fout,             \* the lines written to the output file
    offered,          \* the types handed to find_trades with a non-empty book, in order
    flushes,          \* one record per processed batch: its types and the lines written
    history_queries,  \* one record per get_market_history call: its types and regions
    argv,             \* sys.argv[1:] of a command-line run: <<date>> or <<date, size>>
    exit_status       \* <<>> while the process lives, <<n>> once it has ended with status n

vars == <<pc, type_batch_size, type_count, next_types, scanned, history_store,
          inferred, fout, offered, flushes, history_queries, argv, exit_status>>

(***************************************************************************)
(* The inputs of a run.                                                    *)
(***************************************************************************)
\* the order books the archive may hold for type t: the volume of the orders in
\* varying ranges over 0..MaxVolume, the other orders keep MaxVolume
Quotes == {<<>>} \cup {<<v>> : v \in 0..MaxVolume}
VolumesOf(o, varying) == IF o \in varying THEN 0..MaxVolume ELSE {MaxVolume}

BookContents(t, varying) ==
    {c \in [OrdersOfType(t) -> [SnapTimes -> Quotes]] :
        \A o \in OrdersOfType(t) : \A k \in SnapTimes :
            c[o][k] # <<>> => c[o][k][1] \in VolumesOf(o, varying)}

\* the books of a run of the whole program, and of one batch on its own
ArchiveBooks(t) == BookContents(t, {1, 6})
BatchBooks(t) == BookContents(t, {1, 2})

\* a history series: absent, too short for the window, a full window, six days
HistorySeries == {<<>>, <<25>>, <<20, 20, 20, 20, 20>>, <<0, 25, 25, 25, 25, 25>>}
HistoryPairs == {<<OrderCatalogue[o].type_id, OrderCatalogue[o].region_id>> : o \in OrderIds}
EmptyStore == [p \in Types \X Regions |-> <<>>]
StoreOf(h) == [p \in Types \X Regions |-> IF p \in DOMAIN h THEN h[p] ELSE <<>>]
\* the stores of a run of the whole program: the same series for every pair,
\* no history at all or six days of it
ArchiveSeries == {s \in HistorySeries : Len(s) \in {0, Window + 1}}
UniformStores == {[p \in Types \X Regions |-> s] : s \in ArchiveSeries}

\* the arguments of a command-line run: a date text YYYYMMDD, held as
\* <<year, month, day>>, and an optional batch size
DateArgs == {<<2017, 2, 28>>, <<2016, 2, 29>>, <<2017, 2, 30>>, <<2017, 13, 1>>}
CommandLines == {<<d>> : d \in DateArgs}
                    \cup {<<d, n>> : d \in DateArgs, n \in 1..MaxBatchSize}

\* datetime.datetime.strptime(text, "%Y%m%d"), line 296: <<date>>, or <<>> for
\* the ValueError of a text that names no day of the calendar
IsLeapYear(y) == (y % 4 = 0 /\ y % 100 # 0) \/ y % 400 = 0
DaysInMonth(y, m) ==
    IF m = 2 THEN (IF IsLeapYear(y) THEN 29 ELSE 28)
    ELSE IF m \in {4, 6, 9, 11} THEN 30 ELSE 31
strptime(d) ==
    IF d[2] \in 1..12 /\ d[3] \in 1..DaysInMonth(d[1], d[2]) THEN <<d>> ELSE <<>>

(***************************************************************************)
(* One processed batch: process_batch (lines 254-258) and the body of      *)
(* end_read (lines 283-287).                                               *)
(***************************************************************************)
QueryOf(batch) == [types |-> FullTypeList(batch), regions |-> FullRegionSet(batch)]

\* a slip: write_trades called before the inference (lines 256 and 257
\* exchanged), so that a batch's trades are written with the next batch
ProcessBatch_HeldBack(batch, revRegions, rev) ==
    LET result == infer_trades_helper(history_store, batch, revRegions, rev)
        doc == write_trades(inferred)
    IN  /\ inferred' = result
        /\ fout' = fout \o doc
        /\ flushes' = Append(flushes, [types |-> FullTypeList(batch), doc |-> doc])
        /\ history_queries' = Append(history_queries, QueryOf(batch))

ProcessBatch(batch, revRegions, rev) ==
    LET result == infer_trades_helper(history_store, batch, revRegions, rev)
        doc == write_trades(result)
    IN  /\ inferred' = result
        /\ fout' = fout \o doc
        /\ flushes' = Append(flushes, [types |-> FullTypeList(batch), doc |-> doc])
        /\ history_queries' = Append(history_queries, QueryOf(batch))

(***************************************************************************)
(* read_bulk_file and its two callbacks.                                   *)
(***************************************************************************)
\* lines 58-59: the bulk file or the index file is missing; read_bulk_file
\* returns False and extract_trades leaves by sys.exit(1), lines 289-291
ArchiveMissing ==
    /\ pc = "start"
    /\ pc' = "failed"
    /\ exit_status' = <<1>>
    /\ UNCHANGED <<type_batch_size, type_count, next_types, scanned, history_store,
                   inferred, fout, offered, flushes, history_queries, argv>>

\* lines 61-69: the index is read and the bulk file opened
OpenArchive ==
    /\ pc = "start"
    /\ pc' = "reading"
    /\ UNCHANGED <<type_batch_size, type_count, next_types, scanned, history_store,
                   inferred, fout, offered, flushes, history_queries, argv, exit_status>>

\* a slip: end_callback() called on the failure path too (as from a finally
\* clause), so that end_read flushes the partial buffer before the run fails
ReadError_EndCallback ==
    /\ pc \in {"start", "reading"}
    /\ pc' = "failed"
    /\ exit_status' = <<1>>
    /\ IF next_types # <<>> /\ type_count < type_batch_size
       THEN \E revRegions \in BOOLEAN, rev \in BOOLEAN :
                ProcessBatch(next_types, revRegions, rev)
       ELSE UNCHANGED <<inferred, fout, flushes, history_queries>>
    /\ UNCHANGED <<type_batch_size, type_count, next_types, scanned, history_store,
                   offered, argv>>

\* lines 60-94: an OSError while the archive is opened or read; read_bulk_file
\* returns False without calling end_callback, then lines 289-291
ReadError ==
    /\ pc \in {"start", "reading"}
    /\ pc' = "failed"
    /\ exit_status' = <<1>>
    /\ UNCHANGED <<type_batch_size, type_count, next_types, scanned, history_store,
                   inferred, fout, offered, flushes, history_queries, argv>>

\* a slip: the test of line 264 off by one (type_count <= type_batch_size)
OfferBuffer_OffByOne ==
    /\ pc = "reading"
    /\ \E t \in Types \ scanned : \E c \in ArchiveBooks(t) :
          LET df == BookFrame(t, c)
          IN  /\ type_count <= type_batch_size
              /\ scanned' = scanned \cup {t}
              /\ IF Len(df) > 0
                 THEN /\ next_types' = Append(next_types, <<t, df>>)
                      /\ type_count' = type_count + 1
                      /\ offered' = Append(offered, t)
                 ELSE UNCHANGED <<next_types, type_count, offered>>
    /\ UNCHANGED <<pc, type_batch_size, history_store, inferred, fout, flushes,
                   history_queries, argv, exit_status>>

\* lines 70-90 with find_trades, lines 264-271: the next type is read and buffered
OfferBuffer ==
    /\ pc = "reading"
    /\ \E t \in Types \ scanned : \E c \in ArchiveBooks(t) :
          LET df == BookFrame(t, c)
          IN  /\ type_count < type_batch_size
              /\ scanned' = scanned \cup {t}
              /\ IF Len(df) > 0
                 THEN /\ next_types' = Append(next_types, <<t, df>>)
                      /\ type_count' = type_count + 1
                      /\ offered' = Append(offered, t)
                 ELSE UNCHANGED <<next_types, type_count, offered>>
    /\ UNCHANGED <<pc, type_batch_size, history_store, inferred, fout, flushes,
                   history_queries, argv, exit_status>>

\* lines 70-90 with find_trades, lines 272-276: the next type is read while the
\* buffer is full; the buffered batch is processed and the buffer reset
OfferFlush ==
    /\ pc = "reading"
    /\ ~(type_count < type_batch_size)
    /\ \E revRegions \in BOOLEAN, rev \in BOOLEAN : ProcessBatch(next_types, revRegions, rev)
    /\ \E t \in Types \ scanned : \E c \in ArchiveBooks(t) :
          LET df == BookFrame(t, c)
          IN  /\ scanned' = scanned \cup {t}
              /\ offered' = IF Len(df) > 0 THEN Append(offered, t) ELSE offered
    /\ next_types' = <<>>
    /\ type_count' = 0
    /\ UNCHANGED <<pc, type_batch_size, history_store, argv, exit_status>>

\* line 95 with end_read, lines 282-287, for a non-empty buffer below the batch size
EndReadFlush ==
    /\ pc = "reading"
    /\ type_count < type_batch_size
    /\ next_types # <<>>
    /\ \E revRegions \in BOOLEAN, rev \in BOOLEAN : ProcessBatch(next_types, revRegions, rev)
    /\ pc' = "done"
    /\ UNCHANGED <<type_batch_size, type_count, next_types, scanned, history_store, offered,
                   argv, exit_status>>

\* line 95 with end_read, lines 282-285, for an empty buffer: infer_trades_helper
\* queries the history for no type and no region (line 208), then line 212 takes
\* full_book_list[0] of an empty list: IndexError, which nothing catches
EndReadEmpty ==
    /\ pc = "reading"
    /\ type_count < type_batch_size
    /\ next_types = <<>>
    /\ history_queries' = Append(history_queries, QueryOf(next_types))
    /\ pc' = "crashed"
    /\ UNCHANGED <<type_batch_size, type_count, next_types, scanned, history_store,
                   inferred, fout, offered, flushes, argv, exit_status>>

\* line 95 with end_read, line 282 false: the buffer holds type_batch_size items
EndReadFull ==
    /\ pc = "reading"
    /\ ~(type_count < type_batch_size)
    /\ pc' = "done"
    /\ UNCHANGED <<type_batch_size, type_count, next_types, scanned, history_store,
                   inferred, fout, offered, flushes, history_queries, argv, exit_status>>

\* __main__, lines 296-298.  strptime raises ValueError for a text that is no
\* date.  For a date, line 297 sets the default batch size and line 298
\* evaluates sys.argv > 2, a list compared with an int: TypeError, whatever the
\* arguments.  Nothing catches either, so the interpreter ends with status 1;
\* lines 299-306 are never reached from here.
Main ==
    /\ pc = "main"
    /\ IF strptime(argv[1]) = <<>>
       THEN /\ pc' = "value_error"
            /\ UNCHANGED type_batch_size
       ELSE /\ pc' = "type_error"
            /\ type_batch_size' = DefaultBatchSize
    /\ exit_status' = <<1>>
    /\ UNCHANGED <<type_count, next_types, scanned, history_store, inferred, fout,
                   offered, flushes, history_queries, argv>>

\* the program is started from the command line (pc = "main", the global
\* type_batch_size not yet assigned, held as 0), or extract_trades is entered
\* by a caller that has set type_batch_size (pc = "start", lines 250-251)
Init ==
    /\ \/ /\ pc = "main"
          /\ argv \in CommandLines
          /\ type_batch_size = 0
       \/ /\ pc = "start"
          /\ argv = <<>>
          /\ type_batch_size \in 1..MaxBatchSize
    /\ exit_status = <<>>
    /\ type_count = 0
    /\ next_types = <<>>
    /\ scanned = {}
    /\ history_store \in UniformStores
    /\ inferred = <<>>
    /\ fout = <<>>
    /\ offered = <<>>
    /\ flushes = <<>>
    /\ history_queries = <<>>

Next ==
    \/ Main
    \/ ArchiveMissing
    \/ OpenArchive
    \/ ReadError
    \/ OfferBuffer
    \/ OfferFlush
    \/ EndReadFlush
    \/ EndReadEmpty
    \/ EndReadFull

Spec == Init /\ [][Next]_vars

(***************************************************************************)
(* infer_trades_helper on its own: one batch and one history store, drawn  *)
(* from the input families, and the trades inferred from them.             *)
(***************************************************************************)
InferBatches == {<<1>>, <<2>>, <<1, 2>>}

InitInfer ==
    /\ pc = "batch"
    /\ type_batch_size = MaxBatchSize
    /\ \E ts \in InferBatches :
          /\ \E cs \in [Range(ts) -> UNION {BatchBooks(t) : t \in Range(ts)}] :
                /\ \A t \in Range(ts) : cs[t] \in BatchBooks(t)
                /\ \A t \in Range(ts) : BookFrame(t, cs[t]) # <<>>
                /\ next_types = [i \in 1..Len(ts) |-> <<ts[i], BookFrame(ts[i], cs[ts[i]])>>]
          /\ \E h \in [{p \in HistoryPairs : p[1] \in Range(ts)} -> HistorySeries] :
                history_store = StoreOf(h)
    /\ type_count = Len(next_types)
    /\ scanned = {}
    /\ inferred = <<>>
    /\ fout = <<>>
    /\ offered = <<>>
    /\ flushes = <<>>
    /\ history_queries = <<>>
    /\ argv = <<>>
    /\ exit_status = <<>>

InferBatch ==
    /\ pc = "batch"
    /\ \E revRegions \in BOOLEAN, rev \in BOOLEAN :
          inferred' = infer_trades_helper(history_store, next_types, revRegions, rev)
    /\ history_queries' = Append(history_queries, QueryOf(next_types))
    /\ pc' = "inferred"
    /\ UNCHANGED <<type_batch_size, type_count, next_types, scanned, history_store,
                   fout, offered, flushes, argv, exit_status>>

NextInfer == InferBatch

SpecInfer == InitInfer /\ [][NextInfer]_vars

(***************************************************************************)
(* The claims about the accumulator, under Spec.                           *)
(***************************************************************************)
BufferedTypes == {next_types[i][1] : i \in DOMAIN next_types}
FlushesWith(t) == {k \in DOMAIN flushes : t \in Range(flushes[k].types)}

\* C1: every type handed to the accumulator with a non-empty order book is
\* buffered and ends in exactly one processed batch: at any moment it is
\* still in the buffer or in one processed batch, and never in two.
C1_OfferedItemsBatchedOnce ==
    \A i \in DOMAIN offered :
        /\ Cardinality(FlushesWith(offered[i])) <= 1
        /\ offered[i] \in BufferedTypes \/ Cardinality(FlushesWith(offered[i])) = 1

\* C2: when the archive was read to its end without error, every item that was
\* still buffered has had its batch inferred and written.
C2_FinishFlushesBuffer ==
    pc = "done" => \A t \in BufferedTypes : FlushesWith(t) # {}

\* C8: end_read on an empty buffer is a no-op: it raises no error, queries no
\* history, infers nothing and writes nothing.
C8_FinishOnEmptyIsNoOp ==
    (pc \in {"done", "crashed"} /\ next_types = <<>>) =>
        /\ pc = "done"
        /\ Len(history_queries) = Len(flushes)
        /\ fout = Concat([k \in 1..Len(flushes) |-> flushes[k].doc])

\* C12: an archive failure is fatal and never retried.  Once read_bulk_file has
\* failed (a file missing, or an OSError while reading) the exit status is 1;
\* the failing step itself and every later step leave the output, the processed
\* batches, the history queries and the buffer as they were (end_read does not
\* run, nothing is flushed or written), and the run stays failed.
C12_ArchiveFailureFatal ==
    /\ [](pc = "failed" => exit_status = <<1>>)
    /\ [][(pc = "failed" \/ pc' = "failed") =>
             /\ pc' = "failed"
             /\ fout' = fout
             /\ flushes' = flushes
             /\ history_queries' = history_queries
             /\ inferred' = inferred
             /\ next_types' = next_types
             /\ type_count' = type_count]_vars

\* C12 happens: the read failed after one batch had been written, with a
\* later item still in the buffer, which stays unwritten
C12_Witness ==
    /\ pc = "failed"
    /\ exit_status = <<1>>
    /\ Len(flushes) = 1
    /\ flushes[1].doc # <<>>
    /\ next_types # <<>>
    /\ fout = flushes[1].doc

\* C13: in every state of a run of extract_trades the buffer holds at most
\* type_batch_size order books, and type_count is the number of buffered items.
C13_MemoryBound ==
    pc \in {"start", "reading", "done", "failed", "crashed"} =>
        /\ Len(next_types) <= type_batch_size
        /\ type_count = Len(next_types)

\* C13 happens: the buffer is full at the largest batch size while the archive
\* still has a type to hand over
C13_Witness ==
    /\ pc = "reading"
    /\ type_batch_size = MaxBatchSize
    /\ Len(next_types) = type_batch_size
    /\ Types \ scanned # {}

\* the batch size a command line asks for: its second argument, or the default
RequestedBatchSize == IF Len(argv) > 1 THEN argv[2] ELSE DefaultBatchSize

\* C15: a run started from the command line with a valid date goes on to the
\* extraction with the requested batch size (the second argument, or 200), and
\* ends with status 0 unless the archive cannot be read.
C15_CommandLineRun ==
    (argv # <<>> /\ strptime(argv[1]) # <<>>) =>
        /\ pc # "main" => type_batch_size = RequestedBatchSize
        /\ exit_status # <<>> => (exit_status = <<0>> \/ pc = "failed")

\* C18: the batch is processed and the buffer cleared within the offer that
\* makes the buffer reach type_batch_size: whenever find_trades has returned,
\* the buffer holds strictly fewer than type_batch_size items.
C18_FlushOnFill ==
    pc = "reading" => Len(next_types) < type_batch_size

(***************************************************************************)
(* The claims about the diff engine, under SpecInfer.  They are stated on  *)
(* the snapshots the source delivered for each type of the batch: S_t of   *)
(* type i's book in region r is SnapRows(i, r, t), for every t of          *)
(* SnapTimes, whether or not it holds an order.                            *)
(***************************************************************************)
BatchIndex == DOMAIN next_types
BatchRegions == FullRegionSet(next_types)
PairTimes == {t \in SnapTimes : t + 1 \in SnapTimes}

SnapRows(i, r, t) ==
    SelectSeq(next_types[i][2], LAMBDA x : x.region_id = r /\ x.date = SnapshotTime(t))

SnapIds(i, r, t) == {SnapRows(i, r, t)[k].order_id : k \in DOMAIN SnapRows(i, r, t)}

\* the row of order o in S_t
RowOf(i, r, t, o) ==
    LET sel == SelectSeq(SnapRows(i, r, t), LAMBDA x : x.order_id = o) IN sel[1]

\* the orders present in both S_t and S_t+1, and those only in S_t
Persisting(i, r, t) == SnapIds(i, r, t) \cap SnapIds(i, r, t + 1)
Disappeared(i, r, t) == SnapIds(i, r, t) \ SnapIds(i, r, t + 1)

\* the events emitted for order o in region r with the time of snapshot t
EventsAt(o, r, t) ==
    {k \in DOMAIN inferred : /\ inferred[k].order_id = o
                             /\ inferred[k].region_id = r
                             /\ inferred[k].timestamp = SnapshotTime(t)}

\* the threshold of a type in a region, from the region's history series of the type
ThresholdOf(type_id, r) == VolumeThreshold(HistoryRows(history_store, type_id, r), type_id)

\* C3: an order present in two consecutive snapshots with different volumes
\* yields exactly one event: actual, volume(S_t) - volume(S_t+1) whatever its
\* sign, the price of S_t+1, the time of S_t+1, the order's side and id; an
\* order whose volume is unchanged yields none.
C3_ChangedVolumeTrades ==
    pc = "inferred" =>
        \A i \in BatchIndex : \A r \in BatchRegions : \A t \in PairTimes :
            \A o \in Persisting(i, r, t) :
                LET cur == RowOf(i, r, t, o)
                    nxt == RowOf(i, r, t + 1, o)
                    evs == EventsAt(o, r, t + 1)
                IN  IF cur.volume = nxt.volume THEN evs = {}
                    ELSE /\ Cardinality(evs) = 1
                         /\ \A k \in evs :
                               /\ inferred[k].actual = TRUE
                               /\ inferred[k].volume = cur.volume - nxt.volume
                               /\ inferred[k].price = nxt.price
                               /\ inferred[k].buy = cur.buy
                               /\ inferred[k].type_id = next_types[i][1]

\* C3 happens: one order's volume fell and another's rose between two snapshots
C3_Witness ==
    /\ pc = "inferred"
    /\ \E k \in DOMAIN inferred : inferred[k].actual /\ inferred[k].volume > 0
    /\ \E k \in DOMAIN inferred : inferred[k].actual /\ inferred[k].volume < 0
    /\ \E i \in BatchIndex : \E r \in BatchRegions : \E t \in PairTimes :
          \E o \in Persisting(i, r, t) : RowOf(i, r, t, o).volume = RowOf(i, r, t + 1, o).volume

\* C4: an order of S_t that S_t+1 lacks, while S_t+1 still holds an order, with
\* volume(S_t) <= the threshold, yields exactly one event: not actual, the
\* whole volume(S_t), the price of S_t, the time of S_t+1.
C4_DisappearedOrderTrades ==
    pc = "inferred" =>
        \A i \in BatchIndex : \A r \in BatchRegions : \A t \in PairTimes :
            SnapIds(i, r, t + 1) # {} =>
                \A o \in Disappeared(i, r, t) :
                    LET cur == RowOf(i, r, t, o)
                        evs == EventsAt(o, r, t + 1)
                    IN  IntLeqFloat(cur.volume, ThresholdOf(cur.type_id, r)) =>
                            /\ Cardinality(evs) = 1
                            /\ \A k \in evs :
                                  /\ inferred[k].actual = FALSE
                                  /\ inferred[k].volume = cur.volume
                                  /\ inferred[k].price = cur.price
                                  /\ inferred[k].buy = cur.buy
                                  /\ inferred[k].type_id = next_types[i][1]

\* C4 happens: an order at or below a positive threshold left a snapshot that kept
\* another order, and its event was emitted
C4_Witness ==
    /\ pc = "inferred"
    /\ \E i \in BatchIndex : \E r \in BatchRegions : \E t \in PairTimes :
          /\ SnapIds(i, r, t + 1) # {}
          /\ \E o \in Disappeared(i, r, t) :
                /\ RowOf(i, r, t, o).volume > 0
                /\ IntLeqFloat(RowOf(i, r, t, o).volume, ThresholdOf(next_types[i][1], r))
                /\ EventsAt(o, r, t + 1) # {}

\* the events that record the disappearance of order o of type i's book from
\* region r after snapshot t: those stamped later than S_t, up to whose time
\* the order stays away
EventsOfDisappearance(i, r, t, o) ==
    {k \in DOMAIN inferred :
        /\ inferred[k].order_id = o
        /\ inferred[k].region_id = r
        /\ inferred[k].timestamp > SnapshotTime(t)
        /\ \A u \in SnapTimes :
              (u > t /\ SnapshotTime(u) <= inferred[k].timestamp) => o \notin SnapIds(i, r, u)}

\* C5: an order of S_t that S_t+1 lacks and whose volume(S_t) exceeds the
\* threshold of its type yields no event.
C5_CancellationRule ==
    pc = "inferred" =>
        \A i \in BatchIndex : \A r \in BatchRegions : \A t \in PairTimes :
            \A o \in Disappeared(i, r, t) :
                LET cur == RowOf(i, r, t, o)
                    thr == ThresholdOf(cur.type_id, r)
                IN  (~thr.nan /\ cur.volume * thr.den > thr.num) =>
                        EventsOfDisappearance(i, r, t, o) = {}

\* C5 happens: an order above a positive threshold left a snapshot that was
\* compared with the next one, and no event records it
C5_Witness ==
    /\ pc = "inferred"
    /\ \E i \in BatchIndex : \E r \in BatchRegions : \E t \in PairTimes :
          /\ SnapIds(i, r, t + 1) # {}
          /\ \E o \in Disappeared(i, r, t) :
                LET thr == ThresholdOf(next_types[i][1], r)
                IN  /\ ~thr.nan /\ thr.num > 0
                    /\ RowOf(i, r, t, o).volume * thr.den > thr.num
                    /\ EventsOfDisappearance(i, r, t, o) = {}

\* snapshots t and t+1 of region r both hold an order of some type of the batch
ComparedInBatch(r, t) ==
    /\ \E j \in BatchIndex : SnapIds(j, r, t) # {}
    /\ \E j \in BatchIndex : SnapIds(j, r, t + 1) # {}

\* the orders of type i's book that leave region r after snapshot t, where the
\* batch has orders in both snapshots
Leavers(i, r) ==
    {<<o, t>> \in OrderIds \X PairTimes : o \in Disappeared(i, r, t) /\ ComparedInBatch(r, t)}

\* volume v is at most 0.04 times the mean of the last Window volumes of a
\* series; of an empty series, at most 0
SeriesAllows(series, v) ==
    IF series = <<>> THEN v <= 0
    ELSE /\ Len(series) >= Window
         /\ v * Window * RatioDen
               <= RatioNum * SumSeq(SubSeq(series, Len(series) - Window + 1, Len(series)))

C7_LocationRule ==
    pc = "inferred" =>
        \A k \in DOMAIN inferred :
            LET o == OrderCatalogue[inferred[k].order_id]
            IN  /\ inferred[k].location = "None" <=> (o.buy /\ o.order_range # "station")
                /\ inferred[k].location # "None" =>
                      inferred[k].location = ToString(o.location_id)

\* C7 happens: a changed-volume event without location and a disappeared-order
\* event of a station-bound buy order, with its location
C7_Witness ==
    /\ pc = "inferred"
    /\ \E k \in DOMAIN inferred : inferred[k].actual /\ inferred[k].location = "None"
    /\ \E k \in DOMAIN inferred :
          /\ ~inferred[k].actual
          /\ inferred[k].buy
          /\ inferred[k].location = ToString(OrderCatalogue[inferred[k].order_id].location_id)

\* C9: a type with an empty history series in a region has threshold exactly
\* 0 there: inference goes on, and an order of the type that leaves the
\* region yields an inferred trade only if its volume is <= 0.
C9_EmptyHistoryThreshold ==
    pc = "inferred" =>
        \A i \in BatchIndex : \A r \in BatchRegions :
            history_store[<<next_types[i][1], r>>] = <<>> =>
                /\ ThresholdOf(next_types[i][1], r) = [nan |-> FALSE, num |-> 0, den |-> 1]
                /\ \A t \in PairTimes : \A o \in Disappeared(i, r, t) :
                      /\ RowOf(i, r, t, o).volume > 0 => EventsOfDisappearance(i, r, t, o) = {}
                      /\ ComparedInBatch(r, t) =>
                            (EventsAt(o, r, t + 1) # {} <=> RowOf(i, r, t, o).volume <= 0)

\* C9 happens: with an empty series, an order of volume 0 that left yields an
\* event and one of positive volume yields none
C9_Witness ==
    /\ pc = "inferred"
    /\ \E i \in BatchIndex : \E r \in BatchRegions :
          /\ history_store[<<next_types[i][1], r>>] = <<>>
          /\ \E a \in Leavers(i, r) :
                RowOf(i, r, a[2], a[1]).volume = 0 /\ EventsAt(a[1], r, a[2] + 1) # {}
    /\ \E i \in BatchIndex : \E r \in BatchRegions :
          /\ history_store[<<next_types[i][1], r>>] = <<>>
          /\ \E a \in Leavers(i, r) :
                RowOf(i, r, a[2], a[1]).volume > 0 /\ EventsAt(a[1], r, a[2] + 1) = {}

\* C14: every event inferred for a batch has a type_id of the batch's type set,
\* the types buffered for it, which is also the type set the history was
\* queried for; the type is that of the event's order.
C14_EventTypesInBatch ==
    pc = "inferred" =>
        /\ Range(history_queries[Len(history_queries)].types) = BufferedTypes
        /\ \A k \in DOMAIN inferred :
              /\ inferred[k].type_id \in BufferedTypes
              /\ inferred[k].type_id = OrderCatalogue[inferred[k].order_id].type_id

\* C14 happens: a batch of two types gave events of both types, among them a
\* changed-volume event and a disappeared-order event
C14_Witness ==
    /\ pc = "inferred"
    /\ Cardinality(BufferedTypes) = 2
    /\ \A t \in BufferedTypes : \E k \in DOMAIN inferred : inferred[k].type_id = t
    /\ \E k \in DOMAIN inferred : inferred[k].actual
    /\ \E k \in DOMAIN inferred : ~inferred[k].actual

\* C16: every consecutive pair of snapshots of a region is compared, also a
\* pair whose later snapshot holds no order: an order of S_t that is gone in an
\* empty S_t+1, with volume(S_t) <= its threshold, yields exactly one
\* disappeared-order event, stamped with the time of S_t+1.
C16_EmptySnapshotCompared ==
    pc = "inferred" =>
        \A i \in BatchIndex : \A r \in BatchRegions : \A t \in PairTimes :
            SnapIds(i, r, t + 1) = {} =>
                \A o \in Disappeared(i, r, t) :
                    LET cur == RowOf(i, r, t, o)
                        evs == EventsAt(o, r, t + 1)
                    IN  IntLeqFloat(cur.volume, ThresholdOf(cur.type_id, r)) =>
                            /\ Cardinality(evs) = 1
                            /\ \A k \in evs :
                                  /\ inferred[k].actual = FALSE
                                  /\ inferred[k].volume = cur.volume

\* the last n entries of a series, or all of it when it is shorter
LastDays(series, n) ==
    IF Len(series) <= n THEN series ELSE SubSeq(series, Len(series) - n + 1, Len(series))

\* C17: for a type with a non-empty history series in a region, of any length
\* from 1 to 6 days, the threshold is 0.04 times the average of the (up to) 5
\* most recent daily volumes of the series, and an order of the type that
\* leaves the region between two compared snapshots with a volume at or below
\* that number yields an inferred trade.
C17_ShortSeriesThreshold ==
    pc = "inferred" =>
        \A i \in BatchIndex : \A r \in BatchRegions :
            LET series == history_store[<<next_types[i][1], r>>]
                recent == LastDays(series, Window)
            IN  series # <<>> =>
                    /\ ~ThresholdOf(next_types[i][1], r).nan
                    /\ \A a \in Leavers(i, r) :
                          RowOf(i, r, a[2], a[1]).volume * Len(recent) * RatioDen
                                <= RatioNum * SumSeq(recent)
                              => EventsAt(a[1], r, a[2] + 1) # {}

\* the set of events of a list of trades for one type in one region
EventSet(trades, type_id, r) ==
    {trades[k] : k \in {j \in DOMAIN trades :
                            trades[j].type_id = type_id /\ trades[j].region_id = r}}

\* the events inferred for the i-th item of the batch processed in a batch of
\* its own, with the same history
InferredAlone(i) == infer_trades_helper(history_store, <<next_types[i]>>, FALSE, FALSE)

\* C20: with the same history, the set of events emitted for a type in a region
\* is the same whether the type's order book is processed in a batch of its own
\* or in one batch with the order books of other types.
C20_BatchCompositionIndependence ==
    pc = "inferred" =>
        \A i \in BatchIndex : \A r \in Regions :
            EventSet(inferred, next_types[i][1], r)
                = EventSet(InferredAlone(i), next_types[i][1], r)

(***************************************************************************)
(* write_trades on its own: one list of trades, of any types, regions and  *)
(* times in any order, and the lines written for it.                       *)
(***************************************************************************)
WriteTypes == {3, 5}
WriteStamps == {SnapshotTime(1), SnapshotTime(2)}
WriteKeys == WriteTypes \X Regions \X WriteStamps

\* the k-th trade of a list, with type, region and time key
TradeOf(key, k) ==
    [timestamp |-> key[3],
     region_id |-> key[2],
     type_id   |-> key[1],
     actual    |-> (k % 2 = 0),
     buy       |-> (k % 2 = 1),
     order_id  |-> k,
     price     |-> 100 * k + 5,
     volume    |-> k,
     location  |-> IF k % 2 = 1 THEN "None" ELSE ToString(60 + k)]

InitWrite ==
    /\ pc = "trades"
    /\ \E n \in 1..MaxTrades : \E keys \in [1..n -> WriteKeys] :
          inferred = [k \in 1..n |-> TradeOf(keys[k], k)]
    /\ type_batch_size = MaxBatchSize
    /\ type_count = 0
    /\ next_types = <<>>
    /\ scanned = {}
    /\ history_store = EmptyStore
    /\ fout = <<>>
    /\ offered = <<>>
    /\ flushes = <<>>
    /\ history_queries = <<>>
    /\ argv = <<>>
    /\ exit_status = <<>>

WriteBatch ==
    /\ pc = "trades"
    /\ fout' = fout \o write_trades(inferred)
    /\ flushes' = Append(flushes, [types |-> <<>>, doc |-> write_trades(inferred)])
    /\ pc' = "written"
    /\ UNCHANGED <<type_batch_size, type_count, next_types, scanned, history_store,
                   inferred, offered, history_queries, argv, exit_status>>

NextWrite == WriteBatch

SpecWrite == InitWrite /\ [][NextWrite]_vars

(***************************************************************************)
(* The claims about the written document, under SpecWrite.  The document   *)
(* is read back the way its format says: a type id, the number of its      *)
(* regions, and per region its id, the number of its trades and the trade  *)
(* lines.                                                                  *)
(***************************************************************************)
\* the entries of doc from line i on: regions regions and trades trade lines
\* are still due for the current type and region
RECURSIVE ReadDoc(_, _, _, _, _, _)
ReadDoc(doc, i, type_id, regions, region_id, trades) ==
    IF i > Len(doc) THEN <<>>
    ELSE IF trades > 0 THEN
        <<[kind |-> "trade", type_id |-> type_id, region_id |-> region_id, millis |-> doc[i][1]]>>
        \o ReadDoc(doc, i + 1, type_id, regions, region_id, trades - 1)
    ELSE IF regions > 0 THEN
        <<[kind |-> "region", type_id |-> type_id, region_id |-> doc[i][1], millis |-> 0]>>
        \o ReadDoc(doc, i + 2, type_id, regions - 1, doc[i][1], doc[i + 1][1])
    ELSE
        <<[kind |-> "type", type_id |-> doc[i][1], region_id |-> 0, millis |-> 0]>>
        \o ReadDoc(doc, i + 2, doc[i][1], doc[i + 1][1], 0, 0)

\* the document of the last write_trades call, read back
LastDoc == ReadDoc(flushes[Len(flushes)].doc, 1, 0, 0, 0, 0)

\* C10: within one write_trades call, for any list of trades in any order, the
\* document lists the type ids in ascending order, within a type the region ids
\* in ascending order, and within a region the trade lines in ascending time.
C10_DocumentOrder ==
    pc = "written" =>
        LET d == LastDoc
        IN  \A a \in DOMAIN d : \A b \in DOMAIN d :
                a < b =>
                    /\ (d[a].kind = "type" /\ d[b].kind = "type") =>
                          d[a].type_id < d[b].type_id
                    /\ (/\ d[a].kind = "region" /\ d[b].kind = "region"
                        /\ d[a].type_id = d[b].type_id) =>
                          d[a].region_id < d[b].region_id
                    /\ (/\ d[a].kind = "trade" /\ d[b].kind = "trade"
                        /\ d[a].type_id = d[b].type_id
                        /\ d[a].region_id = d[b].region_id) =>
                          d[a].millis <= d[b].millis

\* C10 happens: a list that gives a type before a smaller one, a region before a
\* smaller one of the same type, and a trade before an earlier one of the same
\* type and region, has been written
C10_Witness ==
    /\ pc = "written"
    /\ \E a \in DOMAIN inferred : \E b \in DOMAIN inferred :
          a < b /\ inferred[a].type_id > inferred[b].type_id
    /\ \E a \in DOMAIN inferred : \E b \in DOMAIN inferred :
          /\ a < b
          /\ inferred[a].type_id = inferred[b].type_id
          /\ inferred[a].region_id > inferred[b].region_id
    /\ \E a \in DOMAIN inferred : \E b \in DOMAIN inferred :
          /\ a < b
          /\ inferred[a].type_id = inferred[b].type_id
          /\ inferred[a].region_id = inferred[b].region_id
          /\ inferred[a].timestamp > inferred[b].timestamp

\* the lines of doc from line i on, each with the type and region it stands
\* under and, for a header, the count written after it; an entry is "broken"
\* where the document ends before the counts are used up
RECURSIVE DocEntries(_, _, _, _, _, _)
DocEntries(doc, i, type_id, regions, region_id, trades) ==
    IF i > Len(doc) THEN
        IF regions > 0 \/ trades > 0
        THEN <<[kind |-> "broken", type_id |-> type_id, region_id |-> region_id,
                count |-> 0, line |-> <<>>]>>
        ELSE <<>>
    ELSE IF trades > 0 THEN
        <<[kind |-> "trade", type_id |-> type_id, region_id |-> region_id,
           count |-> 0, line |-> doc[i]]>>
        \o DocEntries(doc, i + 1, type_id, regions, region_id, trades - 1)
    ELSE IF i + 1 > Len(doc) \/ Len(doc[i]) # 1 \/ Len(doc[i + 1]) # 1 THEN
        <<[kind |-> "broken", type_id |-> type_id, region_id |-> region_id,
           count |-> 0, line |-> doc[i]]>>
    ELSE IF regions > 0 THEN
        <<[kind |-> "region", type_id |-> type_id, region_id |-> doc[i][1],
           count |-> doc[i + 1][1], line |-> doc[i]]>>
        \o DocEntries(doc, i + 2, type_id, regions - 1, doc[i][1], doc[i + 1][1])
    ELSE
        <<[kind |-> "type", type_id |-> doc[i][1], region_id |-> 0,
           count |-> doc[i + 1][1], line |-> doc[i]]>>
        \o DocEntries(doc, i + 2, doc[i][1], doc[i + 1][1], 0, 0)

LastEntries == DocEntries(flushes[Len(flushes)].doc, 1, 0, 0, 0, 0)

\* C11: in the document of one write_trades call the counts agree with the
\* data: the line after a type id is the number of distinct regions with a
\* trade of that type, the line after a region id is the number of trade lines
\* of that type and region, and every trade of the list is exactly one trade
\* line, under its own type and region; there is no other trade line.
C11_CountsAgree ==
    pc = "written" =>
        LET d == LastEntries
            Of(kind) == {a \in DOMAIN d : d[a].kind = kind}
        IN  /\ Of("broken") = {}
            /\ \A k \in DOMAIN inferred :
                  Cardinality({a \in Of("type") : d[a].type_id = inferred[k].type_id}) = 1
            /\ \A a \in Of("type") :
                  /\ d[a].count = Cardinality({b \in Of("region") : d[b].type_id = d[a].type_id})
                  /\ d[a].count = Cardinality({inferred[k].region_id :
                                                 k \in {j \in DOMAIN inferred :
                                                           inferred[j].type_id = d[a].type_id}})
                  /\ d[a].count > 0
            /\ \A a \in Of("region") :
                  /\ d[a].count = Cardinality({b \in Of("trade") :
                                                 /\ d[b].type_id = d[a].type_id
                                                 /\ d[b].region_id = d[a].region_id})
                  /\ d[a].count = Cardinality({k \in DOMAIN inferred :
                                                 /\ inferred[k].type_id = d[a].type_id
                                                 /\ inferred[k].region_id = d[a].region_id})
                  /\ d[a].count > 0
            /\ \A k \in DOMAIN inferred :
                  Cardinality({b \in Of("trade") :
                                 /\ d[b].line = TradeLine(inferred[k])
                                 /\ d[b].type_id = inferred[k].type_id
                                 /\ d[b].region_id = inferred[k].region_id}) = 1
            /\ Cardinality(Of("trade")) = Len(inferred)

\* C11 happens: a written list with two types, a type with trades in two
\* regions and a region with two trades of one type
C11_Witness ==
    /\ pc = "written"
    /\ \E a \in DOMAIN inferred : \E b \in DOMAIN inferred :
          inferred[a].type_id # inferred[b].type_id
    /\ \E a \in DOMAIN inferred : \E b \in DOMAIN inferred :
          /\ inferred[a].type_id = inferred[b].type_id
          /\ inferred[a].region_id # inferred[b].region_id
    /\ \E a \in DOMAIN inferred : \E b \in DOMAIN inferred :
          /\ a # b
          /\ inferred[a].type_id = inferred[b].type_id
          /\ inferred[a].region_id = inferred[b].region_id

(***************************************************************************)
(* The claims about the sequence of batches of a run, under Spec.          *)
(***************************************************************************)
\* the place of type t among the items handed to find_trades
PlaceOf(t) == CHOOSE i \in DOMAIN offered : offered[i] = t

\* the type ids that head a section of a document
TypesNamed(doc) ==
    LET d == DocEntries(doc, 1, 0, 0, 0, 0)
    IN  {d[a].type_id : a \in {b \in DOMAIN d : d[b].kind = "type"}}

\* C19: the output is appended to once per processed batch and the batches are
\* written in archive order.  The output is the documents of the processed
\* batches one after the other; the k-th history query is the one of the k-th
\* batch (the only further query is that of an empty last buffer, on which the
\* run breaks off); batches hold the items in the order they were handed over,
\* an earlier batch earlier items, and while the archive is read the buffered
\* items are later than the processed ones; a batch's document names only its
\* own types.  When a batch is processed, the history is queried once, for the
\* buffered types and the union of the regions in the buffered order books,
\* and the document appended is the one of all the trades inferred from that
\* batch.
C19_OncePerBatchInOrder ==
    /\ [](/\ fout = Concat([k \in 1..Len(flushes) |-> flushes[k].doc])
          /\ Len(history_queries) = Len(flushes) + (IF pc = "crashed" THEN 1 ELSE 0)
          /\ \A k \in DOMAIN flushes :
                /\ flushes[k].types # <<>>
                /\ history_queries[k].types = flushes[k].types
                /\ TypesNamed(flushes[k].doc) \subseteq Range(flushes[k].types)
                /\ Range(flushes[k].types) \subseteq Range(offered)
                /\ \A i \in DOMAIN flushes[k].types : \A j \in DOMAIN flushes[k].types :
                      i < j => PlaceOf(flushes[k].types[i]) < PlaceOf(flushes[k].types[j])
                /\ \A l \in DOMAIN flushes :
                      k < l => \A a \in Range(flushes[k].types) :
                                  \A b \in Range(flushes[l].types) : PlaceOf(a) < PlaceOf(b)
                /\ pc = "reading" =>
                      \A a \in Range(flushes[k].types) :
                          \A b \in BufferedTypes : PlaceOf(a) < PlaceOf(b))
    /\ [][flushes' # flushes =>
             LET types == [i \in DOMAIN next_types |-> next_types[i][1]]
                 regions == UNION {{next_types[i][2][j].region_id :
                                       j \in DOMAIN next_types[i][2]} : i \in DOMAIN next_types}
             IN  /\ next_types # <<>>
                 /\ \E revRegions \in BOOLEAN, rev \in BOOLEAN :
                       inferred' = infer_trades_helper(history_store, next_types,
                                                       revRegions, rev)
                 /\ flushes' = Append(flushes, [types |-> types,
                                                doc |-> write_trades(inferred')])
                 /\ fout' = fout \o write_trades(inferred')
                 /\ history_queries' = Append(history_queries,
                                              [types |-> types, regions |-> regions])]_vars

\* C19 happens: two batches were processed one after the other and both wrote
\* trades
C19_Witness ==
    /\ Len(flushes) = 2
    /\ flushes[1].doc # <<>>
    /\ flushes[2].doc # <<>>
    /\ fout = flushes[1].doc \o flushes[2].doc

====
